---- MODULE Spec2Model ----
\* Backend of the fitness agent server (server.js): the GarminDB subprocess
\* bridge, the in-memory metrics cache with its expiry timers, the fallback
\* generator, the metrics service (getLatestMetrics, syncGarminData,
\* getWeeklySummary, checkGarminDBStatus), the agent bridge (callAgent) and
\* the HTTP handlers that call them.
\*
\* Specifications: Spec (metrics, sync and analyze requests of two users,
\* server started at 23:59:55), SpecAnyTime (the same, started at noon or at
\* 23:59:55), SpecOps (every route that reaches a bridge, one user) and
\* SpecFallback (the fallback generator alone).
\*
\* Execution model: one Node.js event loop.  Each action below is one
\* macrotask (an HTTP request arriving, a child-process event, a timer
\* firing) together with the promise continuations (microtasks) it
\* releases, which run before any other macrotask.
\* Time is in milliseconds and advances from one timer instant to the next.
\* A timer fires at its due instant: time does not advance past a pending
\* timer, but other macrotasks may run at that instant before the timer does.
EXTENDS Integers, Sequences, FiniteSets, TLC

\* ------------------------------------------------------------------ bounds
MaxCalls == 3
MaxLive == 2
\* sendMessage calls on the chat screen
MaxSends == 3
\* Math.random() is taken as r / RandDen for an integer r in 0..RandDen-1
RandDen == 100000

\* ------------------------------------------------------- program constants
CacheTTL == 1800000
GarminTimeout == 15000
AgentTimeout == 30000
\* new Date().toDateString() changes once per calendar day
DayMs == 86400000
\* messages.slice(-10) in the chat screen
HistoryTurns == 10

\* ----------------------------------------------------------------- strings
\* JavaScript strings are sequences of characters, so that template
\* literals and String.prototype.includes are computed, not assumed.
DefaultUser == <<"d", "e", "m", "o", "-", "u", "s", "e", "r">>
OtherUser == <<"u", "s", "e", "r">>
Users == {DefaultUser, OtherUser}

KeyPrefix == <<"m", "e", "t", "r", "i", "c", "s", "_">>

Digit(n) == CASE n = 0 -> "0" [] n = 1 -> "1" [] n = 2 -> "2" [] n = 3 -> "3"
              [] n = 4 -> "4" [] n = 5 -> "5" [] n = 6 -> "6" [] n = 7 -> "7"
              [] n = 8 -> "8" [] OTHER -> "9"

\* new Date(t).toDateString(): one string per calendar day
ToDateString(t) == <<"D", "a", "y", " ", Digit((t \div DayMs) % 10)>>

\* Variant: a cache key that leaves the user out
CacheKeyNoUser(userId, t) == KeyPrefix \o ToDateString(t)

\* `metrics_${userId}_${new Date().toDateString()}`
CacheKey(userId, t) == KeyPrefix \o userId \o <<"_">> \o ToDateString(t)

\* key.includes(userId)
Includes(key, userId) ==
    \E i \in 0..(Len(key) - Len(userId)) :
        SubSeq(key, i + 1, i + Len(userId)) = userId

\* The keys under which getLatestMetrics stores the snapshots of userId
KeysOf(userId) == {CacheKey(userId, d * DayMs) : d \in 0..9}

\* ------------------------------------------------------------ the producer
\* What the external program may write to stdout and exit with.
NoCode == -1

\* JSON.parse(result): throws on text that is no JSON document
ParseOk(out) == out \in {"doc", "null"}

\* The value JSON.parse yields is an object ("doc") or the falsy null
ParsesToNull(out) == out = "null"

\* What the environment may make the program do
ProcOutcomes == {<<0, "doc">>, <<0, "null">>, <<0, "garbage">>, <<1, "doc">>}

\* --------------------------------------------------------------- the state
VARIABLES
    now,          \* Date.now()
    ncalls,       \* number of HTTP requests received so far
    crashed,      \* the server process died of an uncaught exception
    garminCache,  \* let garminCache = {}: cache key -> object
    cacheTimers,  \* pending setTimeout(() => delete garminCache[cacheKey])
    pending,      \* the requests awaiting a bridge promise, by request id
    invs,         \* the bridge invocations with a live process, listener or timer, by request id
    last,         \* the response sent by the step just taken, if any
    event,        \* the bridge event handled by the step just taken, if any
    written,      \* history: per key, the snapshot last stored and when
    synced,       \* history: per user, a successful sync returned and no read started since
    generated,    \* the numbers of the fallback snapshot getFallbackData built last
    nodeEnv,      \* process.env.NODE_ENV
    messages,     \* ChatAgent.js: const [messages, setMessages]
    inputText,    \* ChatAgent.js: const [inputText, setInputText]
    isLoading,    \* ChatAgent.js: const [isLoading, setIsLoading]
    requests,     \* ChatAgent.js: the api.chatWithAgent calls awaited by sendMessage
    sends         \* history: the texts sendMessage was called with, in order

vars == <<now, ncalls, crashed, garminCache, cacheTimers,
          pending, invs, last, event, written, synced, generated,
          nodeEnv, messages, inputText, isLoading, requests, sends>>

\* The state of the chat screen of the mobile app
screenVars == <<messages, inputText, isLoading, requests, sends>>

\* The state of the server
serverVars == <<now, ncalls, crashed, garminCache, cacheTimers,
                pending, invs, last, event, written, synced, generated, nodeEnv>>

\* ----------------------------------------------------------------- objects
\* null, as JSON.parse("null") yields it
NullObj ==
    [id |-> 0, type |-> "null", dataSource |-> "none", success |-> FALSE,
     demoNotice |-> FALSE]

\* Variant: a fallback table without the weekly summary entry
GetFallbackDataNoWeekly(action, id) ==
    CASE action = "get_latest_metrics" ->
             [id |-> id, type |-> "metrics", dataSource |-> "fallback",
              success |-> FALSE, demoNotice |-> FALSE]
      [] action = "sync_data" ->
             [id |-> id, type |-> "sync", dataSource |-> "none",
              success |-> FALSE, demoNotice |-> FALSE]
      [] OTHER ->
             [id |-> id, type |-> "unknown_action", dataSource |-> "none",
              success |-> FALSE, demoNotice |-> FALSE]

\* getFallbackData(action): a fresh object per call
GetFallbackData(action, id) ==
    CASE action = "get_latest_metrics" ->
             [id |-> id, type |-> "metrics", dataSource |-> "fallback",
              success |-> FALSE, demoNotice |-> FALSE]
      [] action = "sync_data" ->
             [id |-> id, type |-> "sync", dataSource |-> "none",
              success |-> FALSE, demoNotice |-> FALSE]
      [] action = "get_weekly_summary" ->
             [id |-> id, type |-> "weekly_demo", dataSource |-> "none",
              success |-> FALSE, demoNotice |-> FALSE]
      [] OTHER ->
             [id |-> id, type |-> "unknown_action", dataSource |-> "none",
              success |-> FALSE, demoNotice |-> FALSE]

\* The values of Math.random() examined.  Math.floor(Math.random() * n) grows
\* with the draw, so the least and the greatest draw give the least and the
\* greatest value of a field.
Draws == {0, 1, RandDen \div 2, RandDen - 1}

\* Variant: a field drawn from twice its width
FloorScaledWide(r, n) == (r * (n + n)) \div RandDen

\* Math.floor(Math.random() * n), for the draw r / RandDen
FloorScaled(r, n) == (r * n) \div RandDen

\* No fallback snapshot has been built yet
NoneGenerated ==
    [steps |-> 0, averageHeartRate |-> 0, sleepScore |-> 0, stressLevel |-> 0,
     bodyBattery |-> 0, restingHeartRate |-> 0, dataSource |-> "none"]

\* The numeric fields and the tag of getFallbackData('get_latest_metrics'),
\* one Math.random() draw per field
FallbackMetrics(d) ==
    [steps            |-> FloorScaled(d[1], 5000) + 5000,
     averageHeartRate |-> FloorScaled(d[2], 20) + 70,
     sleepScore       |-> FloorScaled(d[3], 30) + 70,
     stressLevel      |-> FloorScaled(d[4], 40) + 20,
     bodyBattery      |-> FloorScaled(d[5], 40) + 60,
     restingHeartRate |-> FloorScaled(d[6], 15) + 55,
     dataSource       |-> "fallback"]

\* The document the producer prints for an action when it works; resolve(
\* response) hands it on as parsed, so a metrics document has the dataSource
\* the producer gave it ("producer"): the server writes no tag of its own.
ProducerDoc(action, id) ==
    CASE action = "get_latest_metrics" ->
             [id |-> id, type |-> "metrics", dataSource |-> "producer",
              success |-> TRUE, demoNotice |-> FALSE]
      [] action = "sync_data" ->
             [id |-> id, type |-> "sync", dataSource |-> "none",
              success |-> TRUE, demoNotice |-> FALSE]
      [] action = "get_weekly_summary" ->
             [id |-> id, type |-> "weekly", dataSource |-> "none",
              success |-> TRUE, demoNotice |-> FALSE]
      [] action = "check_status" ->
             [id |-> id, type |-> "status", dataSource |-> "none",
              success |-> TRUE, demoNotice |-> FALSE]
      [] action = "chat" ->
             [id |-> id, type |-> "reply", dataSource |-> "none",
              success |-> TRUE, demoNotice |-> FALSE]
      [] OTHER ->
             [id |-> id, type |-> "insights", dataSource |-> "none",
              success |-> TRUE, demoNotice |-> FALSE]

\* ------------------------------------------------------------------- cache
\* if (garminCache[cacheKey]): present and truthy
CacheHit(cache, key) == key \in DOMAIN cache /\ cache[key] # NullObj

\* garminCache[cacheKey] = metrics
CachePut(cache, key, v) ==
    [k \in DOMAIN cache \cup {key} |-> IF k = key THEN v ELSE cache[k]]

\* Variant: an expiry timer whose callback deletes nothing
CacheDeleteNoop(cache, key) == cache

\* delete garminCache[key]
CacheDelete(cache, key) == [k \in DOMAIN cache \ {key} |-> cache[k]]

\* Variant: the expiry timer set for twice the TTL
ExpiryDueLate(t) == t + CacheTTL + CacheTTL

\* setTimeout(..., 1800000) scheduled at t
ExpiryDue(t) == t + CacheTTL

\* Object.keys(garminCache).forEach(key => { if (key.includes(userId)) delete })
Invalidate(cache, userId) ==
    [k \in {x \in DOMAIN cache : ~Includes(x, userId)} |-> cache[k]]

\* ---------------------------------------------------------------- promises
Pending == [state |-> "pending", outcome |-> "none", id |-> 0]
Settled(outcome, id) ==
    [state |-> IF outcome = "error" THEN "rejected" ELSE "fulfilled",
     outcome |-> outcome, id |-> id]

\* Variant: a promise that lets a later resolve/reject replace its value
PromiseSettleOverwrite(p, s) == s

\* resolve(x) / reject(e) on a promise: only the first call settles it
PromiseSettle(p, s) == IF p.state = "pending" THEN s ELSE p

\* Variant: the timeout callback without its kill() call
KillNoop(proc) == proc

\* Variant: a kill() that also marks a process that has exited as killed
KillAlways(proc) == "killed"

\* pythonProcess.kill(): SIGTERM at its default disposition ends the child,
\* unless it has already exited
Kill(proc) == IF proc = "running" THEN "killed" ELSE proc

\* Variant: callGarminDBService with callAgent's 30 s timer
TimeoutOfAgentOnly(svc) == AgentTimeout

\* setTimeout(..., 15000) in callGarminDBService, 30000 in callAgent
TimeoutOf(svc) == IF svc = "garmin" THEN GarminTimeout ELSE AgentTimeout

\* ------------------------------------------------------------ HTTP handlers
\* GET /garmin/latest-metrics after getLatestMetrics returned v:
\* metrics.dataSource throws a TypeError on null, which the handler's catch
\* turns into a 500; a fallback object gets the demoNotice field added.
MetricsStatus(v) == IF v = NullObj THEN 500 ELSE 200

\* metrics.demoNotice = '...': a write to the object getLatestMetrics
\* returned, which is the object the cache holds
AddDemoNotice(v) ==
    IF v # NullObj /\ v.dataSource = "fallback"
    THEN [v EXCEPT !.demoNotice = TRUE]
    ELSE v

NoResponse ==
    [id |-> 0, kind |-> "none", user |-> << >>, hit |-> FALSE,
     outcome |-> "none", by |-> "none", code |-> NoCode, out |-> "garbage",
     status |-> 0, body |-> NullObj, waited |-> 0,
     expect |-> {}, forced |-> FALSE, spawns |-> << >>]

\* res.json(body) / res.status(500).json(...) for request c
\* ev = <<by, code, out>>: the bridge event that settled the awaited promise
Response(c, call, hit, outcome, ev, status, body) ==
    [id |-> c, kind |-> call.kind, user |-> call.user,
     hit |-> hit, outcome |-> outcome, by |-> ev[1], code |-> ev[2], out |-> ev[3],
     status |-> status, body |-> body,
     waited |-> now - call.startT, expect |-> call.expect, forced |-> call.forced,
     spawns |-> call.spawns]

\* The snapshots the history says are still within their TTL for userId at t
FreshWrites(userId, t) ==
    {written[k].id : k \in {x \in DOMAIN written :
                              x \in KeysOf(userId) /\ t - written[x].at < CacheTTL}}

\* A request being handled.  spawns: the bridge actions it has spawned a
\* process for so far, in order; the last one is the call it awaits.
\* data: the metrics a chat request has passed to callAgent, once it has.
NewCall(kind, userId, key) ==
    [kind |-> kind, user |-> userId, key |-> key, startT |-> now,
     expect |-> IF kind = "metrics" THEN FreshWrites(userId, now) ELSE {},
     forced |-> IF kind = "metrics" THEN synced[userId] ELSE FALSE,
     spawns |-> << >>, data |-> << >>]

\* Variant: the chat handler calls the agent without the metrics
AgentDataNone(metrics) == NullObj

\* callAgent('chat', metrics, message): the data argument is the object
\* getLatestMetrics returned
AgentData(metrics) == metrics

\* The bridge action whose promise the request awaits
Awaited(call) == call.spawns[Len(call.spawns)]

\* res.status(500).json({error: 'Analysis failed', insights: [{..., agent:
\* 'system'}]}): the catch branch of POST /agent/analyze
DefaultInsights ==
    [id |-> 0, type |-> "insights", dataSource |-> "none", success |-> FALSE,
     demoNotice |-> FALSE, error |-> "Analysis failed", count |-> 1,
     agent |-> "system", agent_type |-> "absent"]

\* res.status(500).json({response: "I'm getting ready to help you! ...",
\* agent_type: 'system'}): the catch branch of POST /agent/chat
CannedReply ==
    [id |-> 0, type |-> "reply", dataSource |-> "none", success |-> FALSE,
     demoNotice |-> FALSE, error |-> "absent", count |-> 0,
     agent |-> "absent", agent_type |-> "system"]

\* History of a cache write (the snapshot, when, and for which user's call)
\* and of an invalidation
NoteWrite(w, key, v, userId) ==
    IF v = NullObj
    THEN [k \in DOMAIN w \ {key} |-> w[k]]
    ELSE [k \in DOMAIN w \cup {key} |->
             IF k = key THEN [id |-> v.id, at |-> now, user |-> userId] ELSE w[k]]

NoteInvalidate(w, userId) ==
    [k \in {x \in DOMAIN w : ~Includes(x, userId)} |-> w[k]]

\* Variant: chat asks for the metrics once more when it got fallback data
NextBridgeCallRetry(call, outcome) ==
    IF outcome = "fallback" THEN "get_latest_metrics" ELSE "chat"

\* The bridge call POST /agent/chat makes once its getLatestMetrics has
\* returned, whatever it returned
NextBridgeCall(call, outcome) == "chat"

\* The actions of garmin_service.py that callGarminDBService is called with
GarminActions == {"get_latest_metrics", "sync_data", "get_weekly_summary", "check_status"}

\* callGarminDBService serves the garmin actions, callAgent 'chat' and
\* whatever request type POST /agent/analyze hands it
SvcOf(action) == IF action \in GarminActions THEN "garmin" ELSE "agent"

\* What runs when the promise awaited by request c settles with `outcome`
\* carrying object v: the rest of the service method, then the rest of the
\* route handler.
Resume(c, outcome, ev, v) ==
    LET call == pending[c] IN
    CASE call.kind = "metrics" ->
            \* garminCache[cacheKey] = metrics; setTimeout(delete, 1800000);
            \* then the handler reads metrics.dataSource
            [cache  |-> CachePut(garminCache, call.key, AddDemoNotice(v)),
             timers |-> cacheTimers \cup {[key |-> call.key, due |-> ExpiryDue(now)]},
             last   |-> Response(c, call, FALSE, outcome, ev, MetricsStatus(v), AddDemoNotice(v)),
             written |-> NoteWrite(written, call.key, v, call.user),
             synced |-> synced, more |-> FALSE, cont |-> call]
      [] call.kind = "sync" ->
            \* clear cache after sync, whatever the result says
            [cache  |-> Invalidate(garminCache, call.user),
             timers |-> cacheTimers,
             last   |-> Response(c, call, FALSE, outcome, ev, 200, v),
             written |-> NoteInvalidate(written, call.user),
             synced |-> [synced EXCEPT ![call.user] = (outcome = "doc") \/ @],
             more |-> FALSE, cont |-> call]
      [] call.kind = "devsync" ->
            \* POST /dev/trigger-sync after its syncGarminData:
            \* res.json({message: 'Sync triggered', result})
            [cache  |-> Invalidate(garminCache, call.user),
             timers |-> cacheTimers,
             last   |-> Response(c, call, FALSE, outcome, ev, 200,
                                 [message |-> "Sync triggered", result |-> v]),
             written |-> NoteInvalidate(written, call.user),
             synced |-> [synced EXCEPT ![call.user] = (outcome = "doc") \/ @],
             more |-> FALSE, cont |-> call]
      [] call.kind \in {"weekly", "status"} ->
            \* return await callGarminDBService(...); res.json(summary)
            [cache  |-> garminCache,
             timers |-> cacheTimers,
             last   |-> Response(c, call, FALSE, outcome, ev, 200, v),
             written |-> written,
             synced |-> synced, more |-> FALSE, cont |-> call]
      [] call.kind = "chat" /\ Awaited(call) = "get_latest_metrics" ->
            \* POST /agent/chat after its getLatestMetrics: the cache write
            \* and timer, then callAgent('chat', metrics, message)
            [cache  |-> CachePut(garminCache, call.key, v),
             timers |-> cacheTimers \cup {[key |-> call.key, due |-> ExpiryDue(now)]},
             last   |-> NoResponse,
             written |-> NoteWrite(written, call.key, v, call.user),
             synced |-> synced, more |-> TRUE,
             cont |-> [call EXCEPT !.spawns = Append(@, NextBridgeCall(call, outcome)),
                                   !.data = <<AgentData(v)>>]]
      [] call.kind = "chat" ->
            \* POST /agent/chat: res.json(response), or the catch branch
            [cache  |-> garminCache,
             timers |-> cacheTimers,
             last   |-> Response(c, call, FALSE, outcome, ev,
                                 IF outcome = "error" THEN 500 ELSE 200,
                                 IF outcome = "error" THEN CannedReply ELSE v),
             written |-> written,
             synced |-> synced, more |-> FALSE, cont |-> call]
      [] OTHER ->
            \* POST /agent/analyze: res.json(response), or the catch branch
            [cache  |-> garminCache,
             timers |-> cacheTimers,
             last   |-> Response(c, call, FALSE, outcome, ev,
                                 IF outcome = "error" THEN 500 ELSE 200,
                                 IF outcome = "error" THEN DefaultInsights ELSE v),
             written |-> written,
             synced |-> synced, more |-> FALSE, cont |-> call]

\* ------------------------------------------------------------------ bridge
\* Variant: a 'close' listener that parses the output whatever the exit code
CloseOutcomeAnyCode(svc, code, out) ==
    IF ParseOk(out)
    THEN IF ParsesToNull(out) THEN "null" ELSE "doc"
    ELSE IF svc = "garmin" THEN "fallback" ELSE "error"

\* The 'close' listener: what it hands to resolve/reject.
\*   callGarminDBService: code 0 and parseable -> the document; otherwise
\*   the fallback data.  callAgent: otherwise reject.
CloseOutcome(svc, code, out) ==
    IF code = 0
    THEN IF ParseOk(out)
         THEN IF ParsesToNull(out) THEN "null" ELSE "doc"
         ELSE IF svc = "garmin" THEN "fallback" ELSE "error"
    ELSE IF svc = "garmin" THEN "fallback" ELSE "error"

\* The timeout callback: what it hands to resolve/reject after kill()
TimeoutOutcome(svc) == IF svc = "garmin" THEN "fallback" ELSE "error"

\* The object an outcome carries
OutcomeObject(outcome, action, id) ==
    CASE outcome = "doc" -> ProducerDoc(action, id)
      [] outcome = "fallback" -> GetFallbackData(action, id)
      [] OTHER -> NullObj

NoEvent == [inv |-> 0, by |-> "none", before |-> Pending, after |-> Pending, proc |-> "none"]

\* Nothing of the invocation is left: process closed and timer fired
Finished(inv) == inv.closed /\ ~inv.timerPending

\* spawn('python3', [...]) plus the listeners and the timeout timer.
\* launch = "enoent": the program cannot be started; the child emits
\* 'error', which has no listener, so the server dies.
NewInvocation(svc, action, c, launch) ==
    [svc |-> svc, action |-> action, call |-> c,
     proc |-> IF launch = "ok" THEN "running" ELSE "failed",
     closed |-> FALSE,
     timerPending |-> TRUE, due |-> now + TimeoutOf(svc),
     promise |-> Pending, by |-> "none"]

\* The invocation of the second bridge call of request c (the callAgent of
\* POST /agent/chat after its getLatestMetrics went to the bridge)
SecondOf(c) == c + MaxCalls

\* Invocation i's listener calls resolve/reject with `outcome`, sent by
\* event `by`; the awaiting request resumes if this settled the promise, and
\* a chat request resumed after its metrics call goes on to callAgent (with
\* the python3 that its metrics call has just launched).
Deliver(i, outcome, ev, inv1) ==
    LET inv == invs[i]
        first == inv.promise.state = "pending"
        v == OutcomeObject(outcome, inv.action, inv.call)
        inv2 == [inv1 EXCEPT !.promise = PromiseSettle(inv.promise, Settled(outcome, v.id)),
                             !.by = IF first THEN ev[1] ELSE inv.by]
        w == Resume(inv.call, outcome, ev, v)
        left == IF Finished(inv2)
                THEN [j \in DOMAIN invs \ {i} |-> invs[j]]
                ELSE [invs EXCEPT ![i] = inv2]
    IN  /\ event' = [inv |-> i, by |-> ev[1], before |-> inv.promise,
                      after |-> inv2.promise, proc |-> inv2.proc]
        /\ invs' = IF first /\ w.more
                   THEN [j \in DOMAIN left \cup {SecondOf(inv.call)} |->
                            IF j = SecondOf(inv.call)
                            THEN NewInvocation(SvcOf(Awaited(w.cont)), Awaited(w.cont),
                                               inv.call, "ok")
                            ELSE left[j]]
                   ELSE left
        /\ IF first
           THEN /\ garminCache' = w.cache
                /\ cacheTimers' = w.timers
                /\ last' = w.last
                /\ written' = w.written
                /\ synced' = w.synced
                /\ pending' = IF w.more
                              THEN [pending EXCEPT ![inv.call] = w.cont]
                              ELSE [c \in DOMAIN pending \ {inv.call} |-> pending[c]]
           ELSE /\ last' = NoResponse
                /\ UNCHANGED <<garminCache, cacheTimers, written, synced, pending>>

Launches == {"ok", "enoent"}

\* Processes, listeners and timers alive, plus the callAgent that each chat
\* request awaiting its metrics is still to make
Load ==
    Cardinality(DOMAIN invs) +
    Cardinality({c \in DOMAIN pending :
                    pending[c].kind = "chat"
                    /\ Awaited(pending[c]) = "get_latest_metrics"})

\* Variant: a call joins the process already running for the same action
\* instead of spawning its own
SpawnCoalesced(svc, action, call, launch) ==
    /\ Load < MaxLive
    /\ pending' = [c \in DOMAIN pending \cup {ncalls + 1} |->
                      IF c = ncalls + 1
                      THEN [call EXCEPT !.spawns = Append(@, action)]
                      ELSE pending[c]]
    /\ IF \E j \in DOMAIN invs : invs[j].action = action /\ invs[j].proc = "running"
       THEN UNCHANGED <<invs, crashed>>
       ELSE /\ invs' = [j \in DOMAIN invs \cup {ncalls + 1} |->
                           IF j = ncalls + 1
                           THEN NewInvocation(svc, action, ncalls + 1, launch)
                           ELSE invs[j]]
            /\ crashed' = (launch # "ok")

\* callGarminDBService / callAgent up to the point the promise is returned
Spawn(svc, action, call, launch) ==
    /\ Load < MaxLive
    /\ pending' = [c \in DOMAIN pending \cup {ncalls + 1} |->
                      IF c = ncalls + 1
                      THEN [call EXCEPT !.spawns = Append(@, action)]
                      ELSE pending[c]]
    /\ invs' = [j \in DOMAIN invs \cup {ncalls + 1} |->
                   IF j = ncalls + 1
                   THEN NewInvocation(svc, action, ncalls + 1, launch)
                   ELSE invs[j]]
    /\ crashed' = (launch # "ok")

\* ------------------------------------------------- the chat screen, idle
\* useState([{id: 1, text: "Hi! I'm your AI fitness coach team. ...",
\* isUser: false, agent: 'fitness_coach', ...}])
WelcomeMessage ==
    [isUser |-> FALSE, agent |-> "fitness_coach", req |-> 0, text |-> <<"H", "i">>]

\* The screen as mounted: the welcome message, an empty input, not loading
ScreenMounted ==
    /\ messages = <<WelcomeMessage>>
    /\ inputText = << >>
    /\ isLoading = FALSE
    /\ requests = {}
    /\ sends = << >>

\* ----------------------------------------------------------------- actions
\* The server is up and idle at 23:59:55, so that the calendar date changes
\* while cache entries are young.
Init ==
    /\ now = DayMs - 5000
    /\ ncalls = 0
    /\ crashed = FALSE
    /\ garminCache = << >>
    /\ cacheTimers = {}
    /\ pending = << >>
    /\ invs = << >>
    /\ last = NoResponse
    /\ event = NoEvent
    /\ written = << >>
    /\ synced = [u \in Users |-> FALSE]
    /\ generated = NoneGenerated
    /\ nodeEnv = "development"
    /\ ScreenMounted

\* GET /garmin/latest-metrics -> getLatestMetrics(userId), up to its await
\* (or to the response, on a cache hit).
GetLatestMetrics(userId, launch) ==
    /\ ~crashed
    /\ ncalls < MaxCalls
    /\ ncalls' = ncalls + 1
    /\ synced' = [synced EXCEPT ![userId] = FALSE]
    /\ event' = NoEvent
    /\ LET key == CacheKey(userId, now)
           call == NewCall("metrics", userId, key)
       IN IF CacheHit(garminCache, key)
          THEN LET v == garminCache[key]
               IN /\ last' = Response(ncalls + 1, call, TRUE, "hit",
                                      <<"none", NoCode, "garbage">>,
                                      MetricsStatus(v), AddDemoNotice(v))
                  /\ garminCache' = CachePut(garminCache, key, AddDemoNotice(v))
                  /\ UNCHANGED <<pending, invs, crashed>>
          ELSE /\ Spawn("garmin", "get_latest_metrics", call, launch)
               /\ last' = NoResponse
               /\ UNCHANGED garminCache
    /\ UNCHANGED <<now, cacheTimers, written, generated,
                   nodeEnv, screenVars>>

\* POST /garmin/sync -> syncGarminData(userId), up to its await
SyncGarminData(userId, launch) ==
    /\ ~crashed
    /\ ncalls < MaxCalls
    /\ ncalls' = ncalls + 1
    /\ Spawn("garmin", "sync_data", NewCall("sync", userId, << >>), launch)
    /\ last' = NoResponse
    /\ event' = NoEvent
    /\ UNCHANGED <<now, garminCache, cacheTimers, written, synced, generated,
                   nodeEnv, screenVars>>

\* POST /agent/analyze -> callAgent(request_type, data), up to its await
Analyze(launch) ==
    /\ ~crashed
    /\ ncalls < MaxCalls
    /\ ncalls' = ncalls + 1
    /\ Spawn("agent", "analyze", NewCall("analyze", << >>, << >>), launch)
    /\ last' = NoResponse
    /\ event' = NoEvent
    /\ UNCHANGED <<now, garminCache, cacheTimers, written, synced, generated,
                   nodeEnv, screenVars>>

\* The external program ends by itself with an exit code and its output, and
\* pythonProcess.on('close', code => ...) runs.
ProcClose(i, code, out) ==
    /\ ~crashed
    /\ invs[i].proc = "running"
    /\ LET inv == invs[i]
       IN Deliver(i, CloseOutcome(inv.svc, code, out), <<"close", code, out>>,
                  [inv EXCEPT !.proc = "exited", !.closed = TRUE])
    /\ UNCHANGED <<now, ncalls, crashed, generated,
                   nodeEnv, screenVars>>

\* 'close' of a process ended by kill(): code is null, signal 'SIGTERM'
KilledClose(i) ==
    /\ ~crashed
    /\ invs[i].proc = "killed"
    /\ ~invs[i].closed
    /\ LET inv == invs[i]
       IN Deliver(i, CloseOutcome(inv.svc, NoCode, "garbage"),
                  <<"close", NoCode, "garbage">>, [inv EXCEPT !.closed = TRUE])
    /\ UNCHANGED <<now, ncalls, crashed, generated,
                   nodeEnv, screenVars>>

\* setTimeout(() => { pythonProcess.kill(); resolve/reject(...) }, timeout)
OnTimeout(i) ==
    /\ ~crashed
    /\ invs[i].timerPending
    /\ invs[i].due = now
    /\ LET inv == invs[i]
       IN Deliver(i, TimeoutOutcome(inv.svc), <<"timeout", NoCode, "garbage">>,
                  [inv EXCEPT !.timerPending = FALSE, !.proc = Kill(inv.proc)])
    /\ UNCHANGED <<now, ncalls, crashed, generated,
                   nodeEnv, screenVars>>

\* setTimeout(() => delete garminCache[cacheKey], 1800000) fires
CacheExpire(t) ==
    /\ ~crashed
    /\ t \in cacheTimers
    /\ t.due = now
    /\ garminCache' = CacheDelete(garminCache, t.key)
    /\ cacheTimers' = cacheTimers \ {t}
    /\ last' = NoResponse
    /\ event' = NoEvent
    /\ UNCHANGED <<now, ncalls, crashed, pending, invs, written, synced, generated,
                   nodeEnv, screenVars>>

\* Pending timer instants
Dues ==
    {t.due : t \in cacheTimers} \cup
    {invs[i].due : i \in {j \in DOMAIN invs : invs[j].timerPending}}

\* Time passes until the next pending timer is due
Tick(t) ==
    /\ ~crashed
    /\ t \in Dues
    /\ t > now
    /\ \A d \in Dues : t <= d
    /\ now' = t
    /\ last' = NoResponse
    /\ event' = NoEvent
    /\ UNCHANGED <<ncalls, crashed, garminCache, cacheTimers,
                   pending, invs, written, synced, generated,
                   nodeEnv, screenVars>>

Next ==
    \/ \E u \in Users, l \in Launches : GetLatestMetrics(u, l)
    \/ \E u \in Users, l \in Launches : SyncGarminData(u, l)
    \/ \E l \in Launches : Analyze(l)
    \/ \E i \in DOMAIN invs, o \in ProcOutcomes : ProcClose(i, o[1], o[2])
    \/ \E i \in DOMAIN invs : KilledClose(i)
    \/ \E i \in DOMAIN invs : OnTimeout(i)
    \/ \E t \in cacheTimers : CacheExpire(t)
    \/ \E t \in Dues : Tick(t)

Spec == Init /\ [][Next]_vars

\* The server started at noon or at 23:59:55: the calendar date stays the
\* same, or changes, while cache entries are young.
StartTimes == {DayMs \div 2, DayMs - 5000}

InitAnyTime ==
    /\ now \in StartTimes
    /\ ncalls = 0
    /\ crashed = FALSE
    /\ garminCache = << >>
    /\ cacheTimers = {}
    /\ pending = << >>
    /\ invs = << >>
    /\ last = NoResponse
    /\ event = NoEvent
    /\ written = << >>
    /\ synced = [u \in Users |-> FALSE]
    /\ generated = NoneGenerated
    /\ nodeEnv = "development"
    /\ ScreenMounted

SpecAnyTime == InitAnyTime /\ [][Next]_vars

\* ------------------------------------------- the other service operations
\* GET /garmin/weekly-summary -> getWeeklySummary(userId), up to its await
GetWeeklySummary(userId, launch) ==
    /\ ~crashed
    /\ ncalls < MaxCalls
    /\ ncalls' = ncalls + 1
    /\ Spawn("garmin", "get_weekly_summary", NewCall("weekly", userId, << >>), launch)
    /\ last' = NoResponse
    /\ event' = NoEvent
    /\ UNCHANGED <<now, garminCache, cacheTimers, written, synced, generated,
                   nodeEnv, screenVars>>

\* GET /garmin/status -> checkGarminDBStatus(), up to its await
CheckGarminDBStatus(launch) ==
    /\ ~crashed
    /\ ncalls < MaxCalls
    /\ ncalls' = ncalls + 1
    /\ Spawn("garmin", "check_status", NewCall("status", << >>, << >>), launch)
    /\ last' = NoResponse
    /\ event' = NoEvent
    /\ UNCHANGED <<now, garminCache, cacheTimers, written, synced, generated,
                   nodeEnv, screenVars>>

\* POST /agent/chat: getLatestMetrics(userId) for context, then
\* callAgent('chat', metrics, message).  On a cache hit the metrics are there
\* at once and the handler goes on to callAgent in the same step; on a miss
\* it awaits the metrics bridge first.
Chat(userId, launch) ==
    /\ ~crashed
    /\ ncalls < MaxCalls
    /\ ncalls' = ncalls + 1
    /\ synced' = [synced EXCEPT ![userId] = FALSE]
    /\ last' = NoResponse
    /\ event' = NoEvent
    /\ LET key == CacheKey(userId, now)
           call == NewCall("chat", userId, key)
       IN IF CacheHit(garminCache, key)
          THEN Spawn("agent", "chat",
                     [call EXCEPT !.data = <<AgentData(garminCache[key])>>], launch)
          ELSE /\ Load + 2 <= MaxLive
               /\ Spawn("garmin", "get_latest_metrics", call, launch)
    /\ UNCHANGED <<now, garminCache, cacheTimers, written, generated,
                   nodeEnv, screenVars>>

\* Every route that reaches a bridge, for the default user
NextOps ==
    \/ \E l \in Launches : GetLatestMetrics(DefaultUser, l)
    \/ \E l \in Launches : SyncGarminData(DefaultUser, l)
    \/ \E l \in Launches : Analyze(l)
    \/ \E l \in Launches : GetWeeklySummary(DefaultUser, l)
    \/ \E l \in Launches : CheckGarminDBStatus(l)
    \/ \E l \in Launches : Chat(DefaultUser, l)
    \/ \E i \in DOMAIN invs, o \in ProcOutcomes : ProcClose(i, o[1], o[2])
    \/ \E i \in DOMAIN invs : KilledClose(i)
    \/ \E i \in DOMAIN invs : OnTimeout(i)
    \/ \E t \in cacheTimers : CacheExpire(t)
    \/ \E t \in Dues : Tick(t)

SpecOps == Init /\ [][NextOps]_vars

\* ------------------------------------- the development route, any request
\* The value of a field the request body does not have
Undefined == "undefined"

\* process.env.NODE_ENV: unset, or what the deployment sets
Envs == {"production", "development", Undefined}

\* request_type of the body of POST /agent/analyze: a request type, or
\* absent
RequestTypes == {"analyze", Undefined}

\* Variant: the development route without its production guard
DevRouteOpenAlways(env) == TRUE

\* if (process.env.NODE_ENV === 'production') return res.status(403)...
DevRouteOpen(env) == env # "production"

\* res.status(403).json({error: 'Not available in production'})
Forbidden == [error |-> "Not available in production"]

InitDev ==
    /\ now = DayMs - 5000
    /\ ncalls = 0
    /\ crashed = FALSE
    /\ garminCache = << >>
    /\ cacheTimers = {}
    /\ pending = << >>
    /\ invs = << >>
    /\ last = NoResponse
    /\ event = NoEvent
    /\ written = << >>
    /\ synced = [u \in Users |-> FALSE]
    /\ generated = NoneGenerated
    /\ nodeEnv \in Envs
    /\ ScreenMounted

\* POST /dev/trigger-sync: 403 in production, otherwise
\* syncGarminData(userId) up to its await
TriggerSync(userId, launch) ==
    /\ ~crashed
    /\ ncalls < MaxCalls
    /\ ncalls' = ncalls + 1
    /\ event' = NoEvent
    /\ LET call == NewCall("devsync", userId, << >>)
       IN IF DevRouteOpen(nodeEnv)
          THEN /\ Spawn("garmin", "sync_data", call, launch)
               /\ last' = NoResponse
          ELSE /\ last' = Response(ncalls + 1, call, FALSE, "forbidden",
                                   <<"none", NoCode, "garbage">>, 403, Forbidden)
               /\ UNCHANGED <<pending, invs, crashed>>
    /\ UNCHANGED <<now, garminCache, cacheTimers, written, synced, generated,
                   nodeEnv, screenVars>>

\* POST /agent/analyze with a body whose request_type is requestType:
\* const {request_type, data} = req.body; callAgent(request_type, data),
\* up to its await
AnalyzeRequest(requestType, launch) ==
    /\ ~crashed
    /\ ncalls < MaxCalls
    /\ ncalls' = ncalls + 1
    /\ Spawn("agent", requestType, NewCall("analyze", << >>, << >>), launch)
    /\ last' = NoResponse
    /\ event' = NoEvent
    /\ UNCHANGED <<now, garminCache, cacheTimers, written, synced, generated,
                   nodeEnv, screenVars>>

NextDev ==
    \/ \E u \in Users, l \in Launches : TriggerSync(u, l)
    \/ \E l \in Launches : GetLatestMetrics(DefaultUser, l)
    \/ \E r \in RequestTypes, l \in Launches : AnalyzeRequest(r, l)
    \/ \E i \in DOMAIN invs, o \in ProcOutcomes : ProcClose(i, o[1], o[2])
    \/ \E i \in DOMAIN invs : KilledClose(i)
    \/ \E i \in DOMAIN invs : OnTimeout(i)
    \/ \E t \in cacheTimers : CacheExpire(t)
    \/ \E t \in Dues : Tick(t)

SpecDev == InitDev /\ [][NextDev]_vars

\* ---------------------------------------------------------- the chat screen
\* String.prototype.trim() on a text of letters and spaces
RECURSIVE TrimStart(_)
TrimStart(s) == IF s # << >> /\ Head(s) = " " THEN TrimStart(Tail(s)) ELSE s

RECURSIVE TrimEnd(_)
TrimEnd(s) ==
    IF s # << >> /\ s[Len(s)] = " " THEN TrimEnd(SubSeq(s, 1, Len(s) - 1)) ELSE s

Trim(s) == TrimEnd(TrimStart(s))

\* !messageText.trim(): the empty string is falsy
IsBlank(s) == Trim(s) = << >>

\* array.slice(-n): the last n elements, all of them if there are fewer
SliceLast(seq, n) ==
    SubSeq(seq, IF Len(seq) > n THEN Len(seq) - n + 1 ELSE 1, Len(seq))

\* What the user may type into the TextInput
Texts == {<<" ">>, <<"a">>, <<" ", "b">>}

\* One of the six quickQuestions, which are all handled alike
QuickQuestions == {<<"H", "o", "w">>}

\* The text of a reply: response.data.response, or the errorMessage of the
\* catch branch
ReplyText == <<"o", "k">>
ErrorText == <<"t", "r", "o", "u", "b", "l", "e">>

\* userMessage = {id: Date.now(), text: messageText, isUser: true, ...}
\* (req: the sendMessage call that built the message)
UserMessage(q, messageText) ==
    [isUser |-> TRUE, agent |-> Undefined, req |-> q, text |-> messageText]

\* agentMessage = {text: response.data.response, isUser: false,
\* agent: response.data.agent_type || 'ai_coach', ...}
AgentMessage(q, agentType) ==
    [isUser |-> FALSE, agent |-> IF agentType = Undefined THEN "ai_coach" ELSE agentType,
     req |-> q, text |-> ReplyText]

\* errorResponse = {text: errorMessage, isUser: false, agent: 'system', ...}
ErrorResponse(q) ==
    [isUser |-> FALSE, agent |-> "system", req |-> q, text |-> ErrorText]

\* Variant: setMessages([...messages, m]) with the list the callback closed
\* over
AppendMessageStale(prev, closed, m) == Append(closed, m)

\* setMessages(prev => [...prev, m]): a functional update, applied to the
\* list as it is when the update runs
AppendMessage(prev, closed, m) == Append(prev, m)

\* The conversation of n earlier exchanges that were answered before
RECURSIVE Earlier(_)
Earlier(n) ==
    IF n = 0
    THEN <<WelcomeMessage>>
    ELSE Earlier(n - 1) \o <<UserMessage(0, <<"a">>), AgentMessage(0, "fitness_coach")>>

\* The screen just mounted, or after five answered exchanges
Conversations == {Earlier(0), Earlier(5)}

\* payload = {request_type, data, message} of callAgent
AgentPayload(requestType, data, message) ==
    [request_type |-> requestType, data |-> data, message |-> message]

\* The conversation history a payload carries
HistoryOf(p) ==
    IF "conversation_history" \in DOMAIN p THEN p.conversation_history ELSE << >>

\* api.chatWithAgent(messageText, messages.slice(-10)) made by the q-th
\* sendMessage call: the POST /agent/chat body {message,
\* conversation_history}, with the list the call closed over (closed) and
\* what the server has made of the request so far
ChatRequest(q, messageText, closed) ==
    [id |-> q, message |-> messageText, closed |-> closed,
     conversation_history |-> SliceLast(closed, HistoryTurns),
     stage |-> "sent", payload |-> << >>]

\* The metrics getLatestMetrics may hand to the chat handler
MetricsFor(q) ==
    {ProducerDoc("get_latest_metrics", q), GetFallbackData("get_latest_metrics", q)}

\* What api.chatWithAgent may settle with: a reply document with or without
\* agent_type, a 200 whose body is null, or a rejection (HTTP 500, network
\* error, axios timeout)
ChatResults == {<<"reply", "fitness_coach">>, <<"reply", Undefined>>,
                <<"null", Undefined>>, <<"error", Undefined>>}

InitScreen ==
    /\ now = DayMs - 5000
    /\ ncalls = 0
    /\ crashed = FALSE
    /\ garminCache = << >>
    /\ cacheTimers = {}
    /\ pending = << >>
    /\ invs = << >>
    /\ last = NoResponse
    /\ event = NoEvent
    /\ written = << >>
    /\ synced = [u \in Users |-> FALSE]
    /\ generated = NoneGenerated
    /\ nodeEnv = "development"
    /\ messages \in Conversations
    /\ inputText = << >>
    /\ isLoading = FALSE
    /\ requests = {}
    /\ sends = << >>

\* onChangeText={setInputText}
ChangeText(t) ==
    /\ t # inputText
    /\ inputText' = t
    /\ UNCHANGED <<messages, isLoading, requests, sends, serverVars>>

\* sendMessage(messageText), up to its await
SendMessage(messageText) ==
    /\ Len(sends) < MaxSends
    /\ sends' = Append(sends, messageText)
    /\ IF IsBlank(messageText)
       THEN UNCHANGED <<messages, inputText, isLoading, requests>>
       ELSE LET q == Len(sends) + 1
            IN /\ messages' = AppendMessage(messages, messages, UserMessage(q, messageText))
               /\ inputText' = << >>
               /\ isLoading' = TRUE
               /\ requests' = requests \cup {ChatRequest(q, messageText, messages)}
    /\ UNCHANGED serverVars

\* onSubmitEditing={() => sendMessage()}: the return key, also while loading
SubmitEditing == SendMessage(inputText)

\* The Send button, disabled={!inputText.trim() || isLoading}
PressSend ==
    /\ ~IsBlank(inputText)
    /\ ~isLoading
    /\ SendMessage(inputText)

\* A quick-question button, disabled={isLoading}
HandleQuickQuestion(question) ==
    /\ ~isLoading
    /\ SendMessage(question)

\* POST /agent/chat on the server: const {message, conversation_history} =
\* req.body; metrics = await getLatestMetrics(userId);
\* callAgent('chat', metrics, message)
ChatRoute(r, metrics) ==
    /\ r \in requests
    /\ r.stage = "sent"
    /\ requests' = (requests \ {r}) \cup
           {[r EXCEPT !.stage = "at_agent",
                      !.payload = <<AgentPayload("chat", metrics, r.message)>>]}
    /\ UNCHANGED <<messages, inputText, isLoading, sends, serverVars>>

\* The await of sendMessage call r ends: the rest of try, or catch, then
\* finally.  A reply document comes from the agent only; response.data null
\* makes response.data.response throw, which lands in catch like a rejection.
Settle(r, result) ==
    /\ r \in requests
    /\ result[1] \in {"reply", "null"} => r.stage = "at_agent"
    /\ messages' = AppendMessage(messages, r.closed,
                                 IF result[1] = "reply"
                                 THEN AgentMessage(r.id, result[2])
                                 ELSE ErrorResponse(r.id))
    /\ isLoading' = FALSE
    /\ requests' = requests \ {r}
    /\ UNCHANGED <<inputText, sends, serverVars>>

NextScreen ==
    \/ \E t \in Texts : ChangeText(t)
    \/ SubmitEditing
    \/ PressSend
    \/ \E q \in QuickQuestions : HandleQuickQuestion(q)
    \/ \E r \in requests : \E m \in MetricsFor(r.id) : ChatRoute(r, m)
    \/ \E r \in requests, x \in ChatResults : Settle(r, x)

SpecScreen == InitScreen /\ [][NextScreen]_vars

\* ------------------------------------------------ the fallback generator
\* getFallbackData('get_latest_metrics') called with the six draws d
GenerateFallback(d) ==
    /\ generated' = FallbackMetrics(d)
    /\ UNCHANGED <<now, ncalls, crashed, garminCache, cacheTimers,
                   pending, invs, last, event, written, synced,
                   nodeEnv, screenVars>>

NextFallback == \E d \in [1..6 -> Draws] : GenerateFallback(d)

SpecFallback == Init /\ [][NextFallback]_vars

\* ================================================================== claims

\* C1: two getLatestMetrics(userId) calls within the 30-minute TTL of the
\* entry the first one wrote, with no invalidation in between: the second
\* returns the identical snapshot from the cache and spawns no process.
\* (`expect` is the set of snapshots written for the user less than CacheTTL
\* before the call started and not invalidated since.)
C1_CachedWithinTTL ==
    /\ \A c \in DOMAIN pending :
           pending[c].kind = "metrics" => pending[c].expect = {}
    /\ (last.kind = "metrics" /\ last.expect # {}) =>
           (last.hit /\ last.expect = {last.body.id})

\* C2: fallback snapshots are never written to the cache, and no
\* getLatestMetrics call is answered with a fallback snapshot from the cache.
C2_NoFallbackCached ==
    /\ \A k \in DOMAIN garminCache : garminCache[k].dataSource # "fallback"
    /\ (last.kind = "metrics" /\ last.hit) => last.body.dataSource # "fallback"

\* C3: a successful syncData(userId) removes every cache entry of that user
\* and removes or changes no entry of any other user.
C3_SyncInvalidatesOwnUserOnly ==
    [][(last'.kind = "sync" /\ last'.outcome = "doc") =>
          \A k \in DOMAIN garminCache :
              IF k \in KeysOf(last'.user)
              THEN k \notin DOMAIN garminCache'
              ELSE k \in DOMAIN garminCache' /\ garminCache'[k] = garminCache[k]]_vars

\* C4: when the Bridge call of syncData fails, syncData reports the failure
\* and leaves the cache unchanged.
C4_FailedSyncKeepsCache ==
    [][(last'.kind = "sync" /\ last'.outcome = "fallback") =>
          (~last'.body.success /\ garminCache' = garminCache)]_vars

\* C5: after a successful syncData(userId) has returned, the next
\* getLatestMetrics(userId) misses the cache and invokes the Bridge.
C5_ReadAfterSyncIsLive ==
    (last.kind = "metrics" /\ last.forced) => ~last.hit

\* C6: getLatestMetrics never raises: for every Bridge outcome, a failure to
\* launch the program included, it resolves with a usable snapshot and the
\* route handler answers 200.
C6_NeverRaises ==
    /\ \A c \in DOMAIN pending :
           pending[c].kind = "metrics" => invs[c].proc # "failed"
    /\ last.kind = "metrics" => (last.status = 200 /\ last.body # NullObj)

C8_NoProcessLeftRunning ==
    /\ \A i \in DOMAIN invs :
           invs[i].promise.state # "pending" => invs[i].proc \in {"exited", "killed"}
    /\ event.after.state # "pending" => event.proc \in {"exited", "killed"}

\* An agent invocation rejected by its timeout, its process killed
C8_Witness ==
    \E i \in DOMAIN invs :
        /\ invs[i].svc = "agent"
        /\ invs[i].by = "timeout"
        /\ invs[i].promise.state = "rejected"
        /\ invs[i].proc = "killed"

\* C9: if the metrics program has not ended when the 15 s timer fires, the
\* process is killed and getLatestMetrics resolves at that instant with a
\* snapshot tagged 'fallback'; no getLatestMetrics call waits longer.
C9_TimeoutFallbackAtDeadline ==
    /\ (last.kind = "metrics" /\ last.by = "timeout") =>
           /\ last.waited = GarminTimeout
           /\ last.status = 200
           /\ last.body.dataSource = "fallback"
           /\ last.id \in DOMAIN invs
           /\ invs[last.id].proc = "killed"
    /\ \A c \in DOMAIN pending :
           pending[c].kind = "metrics" => now - pending[c].startT <= GarminTimeout
    /\ last.kind = "metrics" => last.waited <= GarminTimeout

C9_Witness ==
    /\ last.kind = "metrics"
    /\ last.by = "timeout"
    /\ last.body.dataSource = "fallback"
    /\ last.waited = GarminTimeout

\* C10 (as stated): a getLatestMetrics call answered from the cache returns a
\* value written less than the TTL ago, and an expired entry is removed by
\* the lookup itself.
C10_HitYoungerThanTTL ==
    (last.kind = "metrics" /\ last.hit) =>
        /\ CacheKey(last.user, now) \in DOMAIN written
        /\ now - written[CacheKey(last.user, now)].at < CacheTTL

C10_ExpiredRemovedByLookup ==
    \A k \in DOMAIN garminCache \ DOMAIN garminCache' :
        (k \in DOMAIN written /\ now - written[k].at >= CacheTTL) =>
            (ncalls' = ncalls + 1 \/ last'.kind = "sync")

C10_Original == []C10_HitYoungerThanTTL /\ [][C10_ExpiredRemovedByLookup]_vars

\* C10 (amended): no snapshot stays in the cache for more than the TTL after
\* it was written, so a call answered from the cache returns a value written
\* at most 30 minutes ago; a lookup removes nothing from the cache (the
\* entry is deleted by the timer set when it was written).
C10_NoEntryOlderThanTTL ==
    /\ \A k \in DOMAIN garminCache :
           garminCache[k] # NullObj =>
               /\ k \in DOMAIN written
               /\ written[k].id = garminCache[k].id
               /\ now - written[k].at <= CacheTTL
    /\ (last.kind = "metrics" /\ last.hit) =>
           /\ CacheKey(last.user, now) \in DOMAIN garminCache
           /\ garminCache[CacheKey(last.user, now)] = last.body

C10_LookupRemovesNothing ==
    ncalls' # ncalls => DOMAIN garminCache' = DOMAIN garminCache

C10_Amended == []C10_NoEntryOlderThanTTL /\ [][C10_LookupRemovesNothing]_vars

\* An entry's TTL has elapsed and its timer has deleted it
C10_Witness ==
    \E k \in DOMAIN written :
        /\ now - written[k].at = CacheTTL
        /\ k \notin DOMAIN garminCache

\* The TTL of every snapshot written for userId (and not invalidated since)
\* has elapsed
TTLElapsed(userId) ==
    /\ \E k \in DOMAIN written : k \in KeysOf(userId)
    /\ \A k \in DOMAIN written :
           k \in KeysOf(userId) => now - written[k].at > CacheTTL

\* C11: once the TTL of the cached entry of userId has elapsed, the next
\* getLatestMetrics(userId) is not answered from the cache and starts exactly
\* one Bridge invocation; a call that went to the Bridge has spawned exactly
\* one process when it is answered.
C11_StartsOneInvocation ==
    \A u \in Users :
        (/\ ncalls' = ncalls + 1
         /\ TTLElapsed(u)
         /\ \/ /\ ncalls + 1 \in DOMAIN pending'
               /\ pending'[ncalls + 1].kind = "metrics"
               /\ pending'[ncalls + 1].user = u
            \/ /\ last'.id = ncalls + 1
               /\ last'.kind = "metrics"
               /\ last'.user = u)
        => /\ last' = NoResponse
           /\ ncalls + 1 \notin DOMAIN invs
           /\ DOMAIN invs' = DOMAIN invs \cup {ncalls + 1}
           /\ invs'[ncalls + 1].action = "get_latest_metrics"
           /\ invs'[ncalls + 1].call = ncalls + 1
           /\ pending'[ncalls + 1].spawns = <<"get_latest_metrics">>

C11_NeverMoreThanOne ==
    /\ \A c \in DOMAIN pending :
           pending[c].kind = "metrics" => pending[c].spawns = <<"get_latest_metrics">>
    /\ (last.kind = "metrics" /\ ~last.hit) => last.spawns = <<"get_latest_metrics">>

C11_OneInvocationAfterTTL ==
    []C11_NeverMoreThanOne /\ [][C11_StartsOneInvocation]_vars

\* A getLatestMetrics call that started more than the TTL after the user's
\* snapshot was written, under the key that snapshot was stored at, is
\* awaiting the Bridge
C11_Witness ==
    \E c \in DOMAIN pending :
        /\ pending[c].kind = "metrics"
        /\ pending[c].key \in DOMAIN written
        /\ pending[c].startT - written[pending[c].key].at > CacheTTL
        /\ c \in DOMAIN invs

\* The object is the metrics document of the producer, as parsed
FromProducer(v) == v = ProducerDoc("get_latest_metrics", v.id)

\* The object was built by getFallbackData('get_latest_metrics')
FromFallbackGenerator(v) ==
    v # NullObj /\
    [v EXCEPT !.demoNotice = FALSE] = GetFallbackData("get_latest_metrics", v.id)

\* C12: every snapshot getLatestMetrics returns carries a dataSource that
\* states its origin: 'live' exactly when it is the producer's document from
\* a successful Bridge call, 'fallback' exactly when the fallback generator
\* built it.
C12_DataSourceTruthful ==
    last.kind = "metrics" =>
        /\ last.body.dataSource \in {"live", "fallback"}
        /\ last.body.dataSource = "live" <=> FromProducer(last.body)
        /\ last.body.dataSource = "fallback" <=> FromFallbackGenerator(last.body)

\* C13: when the Bridge call of analyze fails (timeout, non-zero exit,
\* unparseable output), the caller receives the list with the single default
\* insight tagged agent 'system', and no error: a success status and no
\* error field.
C13_AnalyzeFailureMasked ==
    (last.kind = "analyze" /\ last.outcome = "error") =>
        /\ last.body.type = "insights"
        /\ last.body.count = 1
        /\ last.body.agent = "system"
        /\ last.status = 200
        /\ last.body.error = "absent"

\* C14: when the agent Bridge call of chat fails, the caller receives the
\* fixed reply tagged agent 'system', not an error.
C14_ChatFailureMasked ==
    (last.kind = "chat" /\ last.outcome = "error") =>
        /\ last.body.type = "reply"
        /\ last.body.agent = "system"
        /\ last.status = 200

\* C15: for every metrics and agent endpoint, a request whose Bridge call
\* failed (timeout, non-zero exit, parse error) is answered with a success
\* status carrying the substituted data, never with an error status.
C15_FailureNeverAnErrorStatus ==
    last.outcome \in {"fallback", "error"} =>
        /\ last.status = 200
        /\ last.body # NullObj

\* C16: every snapshot the fallback generator builds has steps in
\* 5000..10000, sleepScore in 70..100, stressLevel in 20..60, bodyBattery in
\* 60..100 and restingHeartRate in 55..70, all integers, and the tag
\* 'fallback', whatever Math.random() draws.
C16_FallbackWithinRanges ==
    generated # NoneGenerated =>
        /\ generated.steps \in 5000..10000
        /\ generated.sleepScore \in 70..100
        /\ generated.stressLevel \in 20..60
        /\ generated.bodyBattery \in 60..100
        /\ generated.restingHeartRate \in 55..70
        /\ generated.dataSource = "fallback"

\* Every field at the greatest value the code can give it
C16_Witness ==
    /\ generated.steps = 9999
    /\ generated.sleepScore = 99
    /\ generated.stressLevel = 59
    /\ generated.bodyBattery = 99
    /\ generated.restingHeartRate = 69

\* The object is as the Bridge resolved with it: null, the producer's
\* document or the fallback generator's object, no field added or changed
AsBuilt(v) ==
    \/ v = NullObj
    \/ v = ProducerDoc("get_latest_metrics", v.id)
    \/ v = GetFallbackData("get_latest_metrics", v.id)

\* C17: every weeklySummary call invokes the Bridge; starting and answering
\* it leaves the metrics cache and its timers as they are, and the answer is
\* its own Bridge result, nothing from the cache; when the Bridge call fails
\* (timeout, non-zero exit, unparseable output) the answer is the fallback
\* weekly summary with a success status.
C17_WeeklyAnswer ==
    last.kind = "weekly" =>
        /\ ~last.hit
        /\ last.spawns = <<"get_weekly_summary">>
        /\ last.status = 200
        /\ last.body = OutcomeObject(last.outcome, "get_weekly_summary", last.id)
        /\ last.outcome = "fallback" => last.body.type = "weekly_demo"
        /\ (last.by = "timeout" \/ last.code # 0 \/ ~ParseOk(last.out)) =>
               last.outcome = "fallback"

C17_WeeklyStep ==
    /\ (ncalls' = ncalls + 1 /\ ncalls + 1 \in DOMAIN pending'
        /\ pending'[ncalls + 1].kind = "weekly") =>
           /\ DOMAIN invs' = DOMAIN invs \cup {ncalls + 1}
           /\ ncalls + 1 \notin DOMAIN invs
           /\ invs'[ncalls + 1].action = "get_weekly_summary"
           /\ garminCache' = garminCache
           /\ cacheTimers' = cacheTimers
    /\ last'.kind = "weekly" =>
           /\ last'.id \in DOMAIN pending
           /\ garminCache' = garminCache
           /\ cacheTimers' = cacheTimers

NoRepeat(seq) ==
    \A i, j \in 1..Len(seq) : i # j => seq[i] # seq[j]

\* The bridge calls a request of this kind makes at most
MaxBridgeCalls(kind) == IF kind = "chat" THEN 2 ELSE 1

\* C18: no retries: a request spawns at most one process per service
\* operation (getLatestMetrics on a miss, syncData, weeklySummary, the status
\* check, analyze, chat's agent call), whether the call ended by 'close' or by
\* its timeout.
C18_NoRetries ==
    /\ \A c \in DOMAIN pending :
           /\ NoRepeat(pending[c].spawns)
           /\ Len(pending[c].spawns) <= MaxBridgeCalls(pending[c].kind)
    /\ last.kind # "none" =>
           /\ NoRepeat(last.spawns)
           /\ Len(last.spawns) <= MaxBridgeCalls(last.kind)
    /\ \A i, j \in DOMAIN invs :
           (i # j /\ invs[i].call = invs[j].call) => invs[i].action # invs[j].action

\* A chat request whose metrics call timed out and whose agent call timed
\* out is answered, with one process spawned for each
C18_Witness ==
    /\ last.kind = "chat"
    /\ last.by = "timeout"
    /\ last.spawns = <<"get_latest_metrics", "chat">>
    /\ last.waited = GarminTimeout + AgentTimeout

\* C19: a getLatestMetrics call that finds its key uncached spawns a process
\* of its own, also while other calls for the same key are awaiting theirs
\* (no coalescing), and is answered with the result of its own process.
C19_MissSpawnsOwnProcess ==
    (ncalls' = ncalls + 1 /\ ncalls + 1 \in DOMAIN pending'
     /\ pending'[ncalls + 1].kind = "metrics") =>
        /\ ncalls + 1 \notin DOMAIN invs
        /\ DOMAIN invs' = DOMAIN invs \cup {ncalls + 1}
        /\ invs'[ncalls + 1].call = ncalls + 1
        /\ invs'[ncalls + 1].promise = Pending
        /\ \A j \in DOMAIN invs : invs'[j] = invs[j]

C19_OwnResult ==
    (last.kind = "metrics" /\ ~last.hit) =>
        /\ event.inv = last.id
        /\ last.outcome = IF last.by = "close"
                          THEN CloseOutcome("garmin", last.code, last.out)
                          ELSE "fallback"
        /\ last.body = AddDemoNotice(OutcomeObject(last.outcome, "get_latest_metrics", last.id))

C19_NoCoalescing == []C19_OwnResult /\ [][C19_MissSpawnsOwnProcess]_vars

\* Two calls for the same key each await a running process of their own
C19_Witness ==
    \E c, d \in DOMAIN pending :
        /\ c # d
        /\ pending[c].kind = "metrics" /\ pending[d].kind = "metrics"
        /\ pending[c].key = pending[d].key
        /\ c \in DOMAIN invs /\ invs[c].proc = "running"
        /\ d \in DOMAIN invs /\ invs[d].proc = "running"

\* C20: a snapshot stored in the cache is never changed afterwards: every
\* cached object is as it was built.
C20_CachedSnapshotImmutable ==
    \A k \in DOMAIN garminCache : AsBuilt(garminCache[k])

\* C23: the Bridge classifies a finished process by exit code and output:
\* code 0 with one parseable JSON document is a success carrying exactly that
\* document; a non-zero code is a failure whatever was written to stdout;
\* code 0 with unparseable output is a failure; no failure is delivered as a
\* success carrying the producer's data.  (A failure is the fallback object
\* for callGarminDBService and a rejection for callAgent.)
C23_BridgeClassification ==
    last.by = "close" =>
        LET doc == ProducerDoc(Awaited(last), last.id)
            agent == SvcOf(Awaited(last)) = "agent"
        IN /\ event.inv = last.id
           /\ (last.code = 0 /\ last.out = "doc") =>
                  /\ event.after = [state |-> "fulfilled", outcome |-> "doc", id |-> last.id]
                  /\ last.outcome = "doc"
                  /\ last.body = doc
           /\ (last.code = 0 /\ last.out = "null") =>
                  /\ event.after.state = "fulfilled"
                  /\ last.outcome = "null"
                  /\ last.body = NullObj
           /\ (last.code # 0 \/ last.out = "garbage") =>
                  /\ event.after.outcome = IF agent THEN "error" ELSE "fallback"
                  /\ event.after.state = IF agent THEN "rejected" ELSE "fulfilled"
                  /\ last.outcome = event.after.outcome
                  /\ last.body # doc
                  /\ last.body.success = FALSE

\* A process that printed a document but exited with code 1 is answered with
\* the fallback object
C23_Witness ==
    /\ last.by = "close"
    /\ last.code = 1
    /\ last.out = "doc"
    /\ last.outcome = "fallback"
    /\ last.body.dataSource = "fallback"

\* C24: an entry written at time t stays readable until t + 30 minutes
\* unless a sync invalidates it, whatever was written, overwritten or
\* invalidated for its key before: while the last write of a key is younger
\* than the TTL and not invalidated, the cache holds that snapshot.
C24_OwnFullLifetime ==
    \A k \in DOMAIN written :
        now - written[k].at < CacheTTL =>
            /\ k \in DOMAIN garminCache
            /\ garminCache[k] # NullObj
            /\ garminCache[k].id = written[k].id

\* C25: between the cache lookup of a getLatestMetrics call and the cache
\* write of that call nothing changes the cache: while a call that found
\* its key uncached has not written yet, the key is still uncached.
C25_NoChangeBetweenLookupAndWrite ==
    \A c \in DOMAIN pending :
        pending[c].kind = "metrics" => ~CacheHit(garminCache, pending[c].key)

\* C26: an event of an invocation whose promise is already settled (the
\* timer after 'close', or the 'close' of the killed process after the
\* timeout) has no observable effect: the settled value stays, no response
\* is sent, cache and waiting requests are untouched, no other invocation is
\* touched, and the late timer finds the process exited and leaves it so.
C26_LateEventStep ==
    (event'.by # "none" /\ event'.before.state # "pending") =>
        /\ event'.inv \in DOMAIN invs
        /\ event'.before = invs[event'.inv].promise
        /\ event'.after = event'.before
        /\ last' = NoResponse
        /\ garminCache' = garminCache
        /\ cacheTimers' = cacheTimers
        /\ pending' = pending
        /\ written' = written
        /\ \A j \in DOMAIN invs \ {event'.inv} :
               j \in DOMAIN invs' /\ invs'[j] = invs[j]
        /\ event'.by = "timeout" =>
               (invs[event'.inv].proc = "exited" /\ event'.proc = "exited")
        /\ event'.by = "close" => invs[event'.inv].by = "timeout"

C26_LateEventHasNoEffect == [][C26_LateEventStep]_vars

\* The 'close' of a process killed by the timeout arrives after the timeout
\* has settled the promise
C26_Witness ==
    /\ event.by = "close"
    /\ event.before.state # "pending"
    /\ event.proc = "killed"

\* C27: getLatestMetrics(A) never returns a snapshot fetched for another
\* user B, and its cache write never touches an entry of B: a hit returns
\* the snapshot last stored under A's key by a call of A, a miss returns the
\* result of the call's own fetch, and the step that answers A leaves every
\* entry stored for another user as it was.
C27_OwnSnapshot ==
    /\ (last.kind = "metrics" /\ last.hit) =>
           LET k == CacheKey(last.user, now)
           IN /\ k \in DOMAIN written
              /\ written[k].user = last.user
              /\ written[k].id = last.body.id
    /\ (last.kind = "metrics" /\ ~last.hit /\ last.body # NullObj) =>
           last.body.id = last.id
    /\ \A k \in DOMAIN written : k \in KeysOf(written[k].user)

C27_WriteStep ==
    last'.kind = "metrics" =>
        \A k \in DOMAIN garminCache :
            (k \in DOMAIN written /\ written[k].user # last'.user) =>
                (k \in DOMAIN garminCache' /\ garminCache'[k] = garminCache[k])

C27_CacheIsolation == []C27_OwnSnapshot /\ [][C27_WriteStep]_vars

\* A call of one user is answered from its own fetch and stores it while the
\* cache holds an entry of the other user
C27_Witness ==
    /\ last.kind = "metrics"
    /\ ~last.hit
    /\ last.body # NullObj
    /\ \E k \in DOMAIN garminCache :
           k \in DOMAIN written /\ written[k].user # last.user

\* C28: POST /agent/chat calls the agent only after getLatestMetrics for the
\* requesting user has resolved and passes it exactly the snapshot that call
\* returned (cached, live or fallback); per chat request at most one metrics
\* process and one agent process are spawned, the metrics process first.
C28_ChatCalls ==
    /\ \A c \in DOMAIN pending :
           pending[c].kind = "chat" =>
               /\ pending[c].spawns \in {<<"get_latest_metrics">>,
                                         <<"get_latest_metrics", "chat">>, <<"chat">>}
               /\ (pending[c].data = << >>) <=> (Awaited(pending[c]) = "get_latest_metrics")
               /\ Awaited(pending[c]) = "get_latest_metrics" =>
                      (invs[c].action = "get_latest_metrics"
                       /\ invs[c].promise.state = "pending"
                       /\ SecondOf(c) \notin DOMAIN invs)
    /\ \A i \in DOMAIN invs :
           (invs[i].action = "chat" /\ invs[i].call \in DOMAIN pending) =>
               /\ pending[invs[i].call].data # << >>
               /\ i = SecondOf(invs[i].call) <=>
                      pending[invs[i].call].spawns = <<"get_latest_metrics", "chat">>
    /\ last.kind = "chat" =>
           last.spawns \in {<<"get_latest_metrics", "chat">>, <<"chat">>}

C28_AgentStep ==
    \A c \in DOMAIN pending' :
        (pending'[c].kind = "chat" /\ pending'[c].data # << >>
         /\ (c \notin DOMAIN pending \/ pending[c].data = << >>)) =>
            IF c \in DOMAIN pending
            THEN \* the metrics promise of the request has just been fulfilled
                 /\ event'.inv = c
                 /\ event'.before.state = "pending"
                 /\ event'.after.state = "fulfilled"
                 /\ pending'[c].data =
                        <<OutcomeObject(event'.after.outcome, "get_latest_metrics", c)>>
                 /\ garminCache'[pending[c].key] = pending'[c].data[1]
                 /\ SecondOf(c) \in DOMAIN invs' /\ invs'[SecondOf(c)].action = "chat"
            ELSE \* getLatestMetrics returned from the cache at once
                 /\ CacheHit(garminCache, pending'[c].key)
                 /\ pending'[c].key = CacheKey(pending'[c].user, now)
                 /\ pending'[c].data = <<garminCache[pending'[c].key]>>
                 /\ invs'[c].action = "chat"

C28_ChatMetricsThenAgent == []C28_ChatCalls /\ [][C28_AgentStep]_vars

\* A chat request whose metrics call fell back awaits the agent it called
\* with the fallback snapshot
C28_Witness ==
    \E c \in DOMAIN pending :
        /\ pending[c].kind = "chat"
        /\ pending[c].spawns = <<"get_latest_metrics", "chat">>
        /\ pending[c].data = <<GetFallbackData("get_latest_metrics", c)>>
        /\ SecondOf(c) \in DOMAIN invs
        /\ invs[SecondOf(c)].proc = "running"

\* C22: a malformed request (POST /agent/analyze without a request type) is
\* rejected at once and never reaches the Bridge: no process is ever spawned
\* for a request whose request_type is absent, and no such request waits.
C22_MalformedNeverSpawns ==
    /\ \A i \in DOMAIN invs : invs[i].action # Undefined
    /\ \A c \in DOMAIN pending : Undefined \notin {pending[c].spawns[n] : n \in 1..Len(pending[c].spawns)}

\* C29: with NODE_ENV 'production' a request to /dev/trigger-sync is answered
\* 403 and has no other effect (no Bridge invocation, cache unchanged); in
\* any other environment it performs exactly one syncGarminData for the
\* requesting user.
C29_Answer ==
    /\ \A c \in DOMAIN pending :
           pending[c].kind = "devsync" =>
               /\ nodeEnv # "production"
               /\ pending[c].spawns = <<"sync_data">>
               /\ c \in DOMAIN invs
               /\ invs[c].action = "sync_data"
               /\ invs[c].call = c
    /\ last.kind = "devsync" =>
           IF nodeEnv = "production"
           THEN last.status = 403 /\ last.body = Forbidden /\ last.spawns = << >>
           ELSE /\ last.status = 200
                /\ last.spawns = <<"sync_data">>
                /\ last.body.message = "Sync triggered"
                /\ last.body.result = OutcomeObject(last.outcome, "sync_data", last.id)
                /\ \A k \in DOMAIN garminCache : ~Includes(k, last.user)

C29_RequestStep ==
    /\ (last'.kind = "devsync" /\ last'.status = 403) =>
           /\ ncalls' = ncalls + 1
           /\ UNCHANGED <<garminCache, cacheTimers, pending, invs, written, synced, crashed>>
    /\ \A c \in DOMAIN pending' \ DOMAIN pending :
           pending'[c].kind = "devsync" =>
               /\ DOMAIN invs' = DOMAIN invs \cup {c}
               /\ \A j \in DOMAIN invs : invs'[j] = invs[j]
               /\ DOMAIN pending' = DOMAIN pending \cup {c}
               /\ garminCache' = garminCache

C29_DevTriggerSync == []C29_Answer /\ [][C29_RequestStep]_vars

\* In production the route answers 403 while the cache holds an entry
C29_Witness ==
    /\ nodeEnv = "production"
    /\ last.kind = "devsync"
    /\ last.status = 403
    /\ garminCache # << >>

\* C21: the payload chat sends to the agent program contains the current
\* metrics snapshot, the incoming message and the trailing turns of the
\* conversation history the caller sent, at most the last 10 of them.
C21_PayloadHasHistory ==
    \A r \in requests :
        r.payload # << >> =>
            LET p == r.payload[1]
            IN /\ p.request_type = "chat"
               /\ p.data \in MetricsFor(r.id)
               /\ p.message = r.message
               /\ HistoryOf(p) = SliceLast(r.conversation_history, HistoryTurns)
               /\ Len(HistoryOf(p)) <= HistoryTurns

\* The sendMessage calls so far that had non-blank text
NonBlank == {q \in 1..Len(sends) : ~IsBlank(sends[q])}

\* Where the messages of call q are in the list
UserAt(q) == {i \in 1..Len(messages) : messages[i].isUser /\ messages[i].req = q}
ReplyAt(q) == {i \in 1..Len(messages) : ~messages[i].isUser /\ messages[i].req = q}

\* C30: every sendMessage call with non-blank text appends exactly one user
\* message and then exactly one reply (the agent's response, or a reply
\* tagged 'system' when the request failed), and loading is false once the
\* reply is appended; a call with blank text appends nothing and sends no
\* request; under any interleaving no message is lost or duplicated.
C30_Messages ==
    /\ \A q \in NonBlank :
           /\ Cardinality(UserAt(q)) = 1
           /\ \A i \in UserAt(q) : messages[i].text = sends[q]
           /\ Cardinality({r \in requests : r.id = q}) <= 1
           /\ IF \E r \in requests : r.id = q
              THEN ReplyAt(q) = {}
              ELSE /\ Cardinality(ReplyAt(q)) = 1
                   /\ \A i \in UserAt(q), j \in ReplyAt(q) : i < j
    /\ \A q \in (1..Len(sends)) \ NonBlank :
           /\ UserAt(q) = {} /\ ReplyAt(q) = {}
           /\ \A r \in requests : r.id # q
    /\ \A r \in requests : r.id \in NonBlank /\ r.message = sends[r.id]
    /\ \A i \in 1..Len(messages) : messages[i].req \in {0} \cup NonBlank
    /\ \E c \in Conversations :
           /\ Len(c) <= Len(messages)
           /\ SubSeq(messages, 1, Len(c)) = c
           /\ \A i \in (Len(c) + 1)..Len(messages) : messages[i].req # 0

C30_Step ==
    /\ Len(messages') \in {Len(messages), Len(messages) + 1}
    /\ SubSeq(messages', 1, Len(messages)) = messages
    /\ (sends' # sends /\ IsBlank(sends'[Len(sends')])) =>
           UNCHANGED <<messages, inputText, isLoading, requests>>
    /\ (sends' # sends /\ ~IsBlank(sends'[Len(sends')])) =>
           /\ messages' = Append(messages, UserMessage(Len(sends'), sends'[Len(sends')]))
           /\ Cardinality(requests') = Cardinality(requests) + 1
           /\ \E r \in requests' \ requests :
                  r.id = Len(sends') /\ r.message = sends'[Len(sends')]
    /\ (Len(messages') > Len(messages) /\ ~messages'[Len(messages')].isUser) =>
           LET m == messages'[Len(messages')]
           IN /\ isLoading' = FALSE
              /\ \E r \in requests :
                     /\ r.id = m.req
                     /\ requests' = requests \ {r}
                     /\ \/ m = ErrorResponse(r.id)
                        \/ r.stage = "at_agent" /\ m.text = ReplyText
                           /\ m.agent \in {"fitness_coach", "ai_coach"}

C30_SendMessage == []C30_Messages /\ [][C30_Step]_vars

\* Two overlapping calls, the second made while the first awaited its reply,
\* both answered, one by the agent and one by a 'system' reply
C30_Witness ==
    /\ requests = {}
    /\ ~isLoading
    /\ \E q1, q2 \in NonBlank :
           /\ q1 < q2
           /\ \A i \in UserAt(q2), j \in ReplyAt(q1) : i < j
           /\ \E j \in ReplyAt(q1) : messages[j].agent = "system"
           /\ \E j \in ReplyAt(q2) : messages[j].agent = "ai_coach"

====
